---- MODULE Spec2Model ----
(***************************************************************************)
(* Model of cued_sf2_compete (src/src/cued_sf2_compete/__init__.py): the   *)
(* submission evaluation harness.  One run of main() is a state machine    *)
(* whose position is pc; the submission's encode/decode and the external   *)
(* vlctest / load_mat_img are inputs drawn from small sets.                *)
(*                                                                         *)
(* Conventions.  A Python value that may be None or absent is a sequence   *)
(* of length at most one: <<>> is None, <<v>> is v.  An image is a         *)
(* sequence of NPix integer pixels.  row.rms holds NPix^2 times the square *)
(* of the value the code stores, which is an integer for integer images.   *)
(***************************************************************************)
EXTENDS Integers, Sequences, FiniteSets, TLC

(* ---- bounds of the model ---- *)
\* largest number of images (required plus extra) in one run
MaxImgs == 2
\* number of pixels of an image
NPix == 2

(* ---- program constants ---- *)
\* main, lines 208 and 242: the bit budget
BitBudget == 40960
\* np.clip(row['Z'], 0, 255), line 152
PixelMax == 255

None == <<>>
Some(v) == <<v>>

(* ---- image identifiers and their resolution (collect, lines 136-145) ---- *)
\* The string  ["cued-sf2://"] base [".mat"]  as its three parts.
ImgIds ==
  { [scheme |-> TRUE,  base |-> "a", mat |-> TRUE ],    \* cued-sf2://a.mat
    [scheme |-> FALSE, base |-> "a", mat |-> FALSE],    \* a
    [scheme |-> FALSE, base |-> "b", mat |-> TRUE ] }   \* b.mat

\* row['name']: the prefix and the suffix are removed only for the scheme.
image_name(img) ==
  IF img.scheme THEN [base |-> img.base, mat |-> FALSE]
  ELSE [base |-> img.base, mat |-> img.mat]

\* fname: the file that is read.
image_fname(img) ==
  IF img.scheme THEN [dir |-> "images", base |-> img.base, mat |-> img.mat]
  ELSE [dir |-> "", base |-> img.base, mat |-> TRUE]

\* load_mat_img(img=fname, img_info='X'): the contents of the files.
load_mat_img(fname) ==
  [k \in 1..NPix |->
     IF fname.base = "a" THEN (IF k = 1 THEN 0 ELSE PixelMax) ELSE 10]

(* ---- the submission's outputs ---- *)
Capabilities == {"header_bits", "encode", "decode"}

\* payload bit counts vlctest can return, and a malformed payload
VlcBitCounts == {40959, 40960}
Payloads ==
  {[malformed |-> TRUE, bits |-> 0]}
    \cup {[malformed |-> FALSE, bits |-> b] : b \in VlcBitCounts}
\* what mod.header_bits(header) can return
HeaderBitCounts == {0, 1}

\* EncodeOutput(vlc, header, n_header_bits); the header is opaque and unused.
EncodeOutputs ==
  {[vlc |-> p, n_header_bits |-> h] : p \in Payloads, h \in HeaderBitCounts}

\* what mod.decode can return for the original X: X itself, or X plus 2 in
\* every pixel (which leaves the pixel range where X is 255).
DecodeOutputs(X) == {X, [k \in 1..NPix |-> X[k] + 2]}

\* vlctest(vlc): the bit count, or ValueError (None here) when malformed.
vlctest(vlc) == IF vlc.malformed THEN None ELSE Some(vlc.bits)

(* ---- numeric helpers (collect, lines 152-153) ---- *)
Min2(a, b) == IF a < b THEN a ELSE b
Max2(a, b) == IF a > b THEN a ELSE b

\* np.clip(Z, 0, 255).astype(np.uint8)
clip_uint8(Z) == [k \in 1..Len(Z) |-> Min2(Max2(Z[k], 0), PixelMax) % 256]

RECURSIVE SeqSum(_)
SeqSum(s) == IF s = <<>> THEN 0 ELSE s[1] + SeqSum(Tail(s))

Diff(X, Za) == [k \in 1..Len(X) |-> X[k] - Za[k]]
SumSq(d) == SeqSum([k \in 1..Len(d) |-> d[k] * d[k]])

\* np.std(d): sqrt(mean((d - mean(d))^2)).  Len(d)^2 * std^2 is the integer
\* Len(d) * sum(d^2) - sum(d)^2.
np_std_sq_scaled(d) == Len(d) * SumSq(d) - SeqSum(d) * SeqSum(d)

VARIABLES
  pc,            \* position in main
  module_caps,   \* attributes the submission module has
  out_dir_exists,
  req_imgs, imgs,
  group, i,      \* group being collected / reported, and the loop index
  req_data, extra_data,
  fail,
  md_state, md,  \* summary.md: "unopened" | "open" | "closed", and its rows
  artifacts,     \* per-image files written to the output directory
  all_json,      \* the dict built by main
  summary_json,  \* summary.json: None or Some(contents)
  json_writes,   \* number of times summary.json was written
  ci_output,     \* ::set-output was printed
  calls,         \* the worker / loader calls made, in order
  exit_status,   \* "running" | "success" | "failure"
  exception,     \* "" or the class of the exception that ended the run
  diag           \* the message of that exception

vars == <<pc, module_caps, out_dir_exists, req_imgs, imgs, group, i, req_data,
          extra_data, fail, md_state, md, artifacts, all_json, summary_json,
          json_writes, ci_output, calls, exit_status, exception, diag>>

Groups == {"required", "extra"}

RECURSIVE SeqsUpTo(_, _)
SeqsUpTo(S, n) ==
  IF n = 0 THEN {<<>>}
  ELSE LET shorter == SeqsUpTo(S, n - 1)
       IN shorter \cup {Append(s, x) : s \in {t \in shorter : Len(t) = n - 1}, x \in S}

\* data = [dict(errors=[]) for _ in imgs], line 134
EmptyRow ==
  [name |-> None, X |-> None, enc |-> None, Z |-> None, Z_actual |-> None,
   rms |-> None, vlc_bits |-> None, total_bits |-> None, vlc_error |-> FALSE]

NoJson == [required |-> <<>>, extra |-> <<>>, failed |-> None]

Init ==
  /\ pc = "load"
  /\ module_caps \in SUBSET Capabilities
  /\ out_dir_exists \in BOOLEAN
  /\ req_imgs \in SeqsUpTo(ImgIds, MaxImgs)
  /\ imgs \in SeqsUpTo(ImgIds, MaxImgs)
  /\ Len(req_imgs) + Len(imgs) <= MaxImgs
  /\ group = "required"
  /\ i = 1
  /\ req_data = <<>>
  /\ extra_data = <<>>
  /\ fail = FALSE
  /\ md_state = "unopened"
  /\ md = <<>>
  /\ artifacts = {}
  /\ all_json = NoJson
  /\ summary_json = None
  /\ json_writes = 0
  /\ ci_output = FALSE
  /\ calls = <<>>
  /\ exit_status = "running"
  /\ exception = ""
  /\ diag = ""

\* An exception leaves main: the with-block closes summary.md if it is open,
\* and the process ends with a failure status.
Raise(cls, msg) ==
  /\ pc' = "done"
  /\ exit_status' = "failure"
  /\ exception' = cls
  /\ diag' = msg
  /\ md_state' = IF md_state = "open" THEN "closed" ELSE md_state

\* load with the check of `decode' left out
load_without_decode_check(caps) ==
  IF "header_bits" \notin caps THEN Some("No header_bits function found")
  ELSE IF "encode" \notin caps THEN Some("No encode function found")
  ELSE None

\* load(module_name), lines 78-92: the message of the RuntimeError for the
\* first missing attribute (without its quotation marks), or None.
load(caps) ==
  IF "header_bits" \notin caps THEN Some("No header_bits function found")
  ELSE IF "encode" \notin caps THEN Some("No encode function found")
  ELSE IF "decode" \notin caps THEN Some("No decode function found")
  ELSE None

\* main, line 175
main_load ==
  /\ pc = "load"
  /\ IF load(module_caps) # None
       THEN Raise("RuntimeError", load(module_caps)[1])
       ELSE /\ pc' = "outdir"
            /\ UNCHANGED <<exit_status, exception, diag, md_state>>
  /\ UNCHANGED <<module_caps, out_dir_exists, req_imgs, imgs, group, i,
                 req_data, extra_data, fail, md, artifacts, all_json,
                 summary_json, json_writes, ci_output, calls>>

\* main, lines 176-181
main_check_out_dir ==
  /\ pc = "outdir"
  /\ IF ~out_dir_exists
       THEN Raise("SystemExit", "Cannot find output directory")
       ELSE /\ pc' = "open"
            /\ UNCHANGED <<exit_status, exception, diag, md_state>>
  /\ UNCHANGED <<module_caps, out_dir_exists, req_imgs, imgs, group, i,
                 req_data, extra_data, fail, md, artifacts, all_json,
                 summary_json, json_writes, ci_output, calls>>

\* main, lines 183-193: fail = False, summary.md is opened for writing (and
\* truncated), collect(mod, req_imgs) is entered.
main_open_report ==
  /\ pc = "open"
  /\ fail' = FALSE
  /\ md_state' = "open"
  /\ md' = <<>>
  /\ group' = "required"
  /\ req_data' = [k \in 1..Len(req_imgs) |-> EmptyRow]
  /\ i' = 1
  /\ pc' = "encode"
  /\ UNCHANGED <<module_caps, out_dir_exists, req_imgs, imgs, extra_data,
                 artifacts, all_json, summary_json, json_writes, ci_output,
                 calls, exit_status, exception, diag>>

(* ---- collect(mod, imgs), lines 133-165 ---- *)
group_imgs == IF group = "required" THEN req_imgs ELSE imgs
group_data == IF group = "required" THEN req_data ELSE extra_data

SetData(d) ==
  IF group = "required"
    THEN req_data' = d /\ UNCHANGED extra_data
    ELSE extra_data' = d /\ UNCHANGED req_data

Call(op, g, k) == [op |-> op, group |-> g, idx |-> k]

\* run_encoder, lines 121-123, and encode_process, lines 94-98, in the worker:
\* an EncodeOutput, or None when load, encode or header_bits raised there and
\* .result() re-raises in the caller.
run_encoder_results == {None} \cup {Some(e) : e \in EncodeOutputs}

\* run_decoder, lines 129-131, and decode_process, lines 125-127.
run_decoder_results(X) == {None} \cup {Some(Z) : Z \in DecodeOutputs(X)}

\* a loop that stays on its item
loop_retry(k) == k

\* the index of the for loops of collect after one iteration
loop_advance(k) == k + 1

\* first loop of collect, lines 135-148, one iteration: resolve the name, load
\* the image, encode it in a worker.  An exception of the worker is not
\* caught in collect nor in main.
collect_encode ==
  /\ pc = "encode"
  /\ i <= Len(group_imgs)
  /\ LET img == group_imgs[i]
         X == load_mat_img(image_fname(img))
         row == [group_data[i] EXCEPT !.name = Some(image_name(img)), !.X = X]
     IN \E out \in run_encoder_results :
          /\ calls' = calls \o <<Call("load_mat_img", group, i),
                                 Call("encode", group, i)>>
          /\ IF out = None
               THEN /\ Raise("Exception", "encode raised in the worker")
                    /\ SetData([group_data EXCEPT ![i] = row])
                    /\ UNCHANGED i
               ELSE /\ SetData([group_data EXCEPT ![i] = [row EXCEPT !.enc = out]])
                    /\ i' = loop_advance(i)
                    /\ UNCHANGED <<pc, exit_status, exception, diag, md_state>>
  /\ UNCHANGED <<module_caps, out_dir_exists, req_imgs, imgs, group, fail, md,
                 artifacts, all_json, summary_json, json_writes, ci_output>>

\* the first loop is exhausted: the second loop starts at the first row
collect_encode_end ==
  /\ pc = "encode"
  /\ i > Len(group_imgs)
  /\ pc' = "decode"
  /\ i' = 1
  /\ UNCHANGED <<module_caps, out_dir_exists, req_imgs, imgs, group, req_data,
                 extra_data, fail, md_state, md, artifacts, all_json,
                 summary_json, json_writes, ci_output, calls, exit_status,
                 exception, diag>>

\* row['total_bits'] = row['vlc_bits'] + row['enc'].n_header_bits, line 163
total_bits(vlc_bits, n_header_bits) == vlc_bits + n_header_bits

\* lines 152-163 for one row, given the decoder's output Z
measure_row(row, Z) ==
  LET Za == clip_uint8(Z)
      vb == vlctest(row.enc[1].vlc)
  IN [row EXCEPT
        !.Z = Z,
        !.Z_actual = Za,
        !.rms = Some(np_std_sq_scaled(Diff(row.X, Za))),
        !.vlc_bits = vb,
        !.total_bits = IF vb = None THEN None
                       ELSE Some(total_bits(vb[1], row.enc[1].n_header_bits)),
        !.vlc_error = (vb = None)]

\* second loop of collect, lines 149-163, one iteration: decode in a worker,
\* clip, measure, count the bits.  Only vlctest's ValueError is caught.
collect_decode ==
  /\ pc = "decode"
  /\ i <= Len(group_data)
  /\ LET row == group_data[i]
     IN \E out \in run_decoder_results(row.X) :
          /\ calls' = Append(calls, Call("decode", group, i))
          /\ IF out = None
               THEN /\ Raise("Exception", "decode raised in the worker")
                    /\ UNCHANGED <<i, req_data, extra_data>>
               ELSE /\ SetData([group_data EXCEPT ![i] = measure_row(row, out[1])])
                    /\ i' = loop_advance(i)
                    /\ UNCHANGED <<pc, exit_status, exception, diag, md_state>>
  /\ UNCHANGED <<module_caps, out_dir_exists, req_imgs, imgs, group, fail, md,
                 artifacts, all_json, summary_json, json_writes, ci_output>>

\* collect returns.  After collect(mod, req_imgs), line 193, main calls
\* collect(mod, imgs), line 194; after that, all_json is created, line 195,
\* and the loop over the two groups starts, line 196.
collect_return ==
  /\ pc = "decode"
  /\ i > Len(group_data)
  /\ i' = 1
  /\ IF group = "required"
       THEN /\ group' = "extra"
            /\ extra_data' = [k \in 1..Len(imgs) |-> EmptyRow]
            /\ pc' = "encode"
            /\ UNCHANGED all_json
       ELSE /\ group' = "required"
            /\ all_json' = NoJson
            /\ pc' = "report"
            /\ UNCHANGED extra_data
  /\ UNCHANGED <<module_caps, out_dir_exists, req_imgs, imgs, req_data, fail,
                 md_state, md, artifacts, summary_json, json_writes, ci_output,
                 calls, exit_status, exception, diag>>

(* ---- the report loop of main, lines 196-253 ---- *)
\* the verdict with >= in place of >
this_fail_at_budget(row) ==
  (row.vlc_bits = None)
    \/ (row.total_bits # None /\ row.total_bits[1] >= BitBudget)

\* lines 205-209
this_fail(row) ==
  (row.vlc_bits = None)
    \/ (row.total_bits # None /\ row.total_bits[1] > BitBudget)

\* a conversion that lets None through as null
json_total_bits_or_null(tb) == IF tb = None THEN Some(None) ELSE Some(Some(tb[1]))

\* int(row['total_bits']), line 214: None when int() raises TypeError, which
\* it does for None.
json_total_bits(tb) == IF tb = None THEN None ELSE Some(Some(tb[1]))

\* fail = fail or this_fail, under `if required`, lines 250-251
fold_fail(f, required, tf) == IF required THEN f \/ tf ELSE f

\* the loop over the two groups moves on: to the extra group, or out of the
\* loop and of the with-block, which closes summary.md
NextGroup ==
  IF group = "required"
    THEN /\ group' = "extra"
         /\ pc' = "report"
         /\ UNCHANGED md_state
    ELSE /\ pc' = "json"
         /\ md_state' = "closed"
         /\ UNCHANGED group

MdLine(kind, g, name, tf) == [kind |-> kind, group |-> g, name |-> name, fail |-> tf]

\* lines 196-203: an empty group is skipped, else its heading and the table
\* are opened
main_report_group ==
  /\ pc = "report"
  /\ i' = 1
  /\ IF group_data = <<>>
       THEN NextGroup /\ UNCHANGED md
       ELSE /\ md' = Append(md, MdLine("h1", group, None, FALSE))
            /\ pc' = "row"
            /\ UNCHANGED <<group, md_state>>
  /\ UNCHANGED <<module_caps, out_dir_exists, req_imgs, imgs, req_data,
                 extra_data, fail, artifacts, all_json, summary_json,
                 json_writes, ci_output, calls, exit_status, exception, diag>>

\* lines 204-251, one row: the verdict, the entry of this_json (whose
\* construction raises TypeError when total_bits is None, before anything of
\* the row is written), the row of summary.md, the image files, and fail.
main_report_row ==
  /\ pc = "row"
  /\ i <= Len(group_data)
  /\ LET row == group_data[i]
         tf == this_fail(row)
         jtb == json_total_bits(row.total_bits)
         entry == [rms |-> row.rms[1], fail |-> tf, total_bits |-> jtb[1]]
     IN IF jtb = None
          THEN /\ Raise("TypeError", "int() argument must not be NoneType")
               /\ UNCHANGED <<i, all_json, md, artifacts, fail>>
          ELSE /\ all_json' = [all_json EXCEPT ![group] = (row.name[1] :> entry) @@ @]
               /\ md' = Append(md, MdLine("row", group, row.name, tf))
               /\ artifacts' = artifacts \cup {row.name[1]}
               /\ fail' = fold_fail(fail, group = "required", tf)
               /\ i' = loop_advance(i)
               /\ UNCHANGED <<pc, exit_status, exception, diag, md_state>>
  /\ UNCHANGED <<module_caps, out_dir_exists, req_imgs, imgs, group, req_data,
                 extra_data, summary_json, json_writes, ci_output, calls>>

\* lines 252-253: the table of the group is closed
main_report_group_end ==
  /\ pc = "row"
  /\ i > Len(group_data)
  /\ NextGroup
  /\ UNCHANGED <<module_caps, out_dir_exists, req_imgs, imgs, i, req_data,
                 extra_data, fail, md, artifacts, all_json, summary_json,
                 json_writes, ci_output, calls, exit_status, exception, diag>>

\* lines 254-256: all_json['failed'] = fail; summary.json is written
main_write_summary ==
  /\ pc = "json"
  /\ all_json' = [all_json EXCEPT !.failed = Some(fail)]
  /\ summary_json' = Some(all_json')
  /\ json_writes' = json_writes + 1
  /\ pc' = "ci"
  /\ UNCHANGED <<module_caps, out_dir_exists, req_imgs, imgs, group, i,
                 req_data, extra_data, fail, md_state, md, artifacts,
                 ci_output, calls, exit_status, exception, diag>>

\* lines 258-260: with GITHUB_ACTIONS in the environment the RMS values of the
\* required images are printed to the log
main_ci_output ==
  /\ pc = "ci"
  /\ \E github_actions \in BOOLEAN : ci_output' = github_actions
  /\ pc' = "exit"
  /\ UNCHANGED <<module_caps, out_dir_exists, req_imgs, imgs, group, i,
                 req_data, extra_data, fail, md_state, md, artifacts, all_json,
                 summary_json, json_writes, calls, exit_status, exception,
                 diag>>

\* lines 262-263, and the return of main
main_exit ==
  /\ pc = "exit"
  /\ IF fail
       THEN Raise("SystemExit", "Some images failed the tests")
       ELSE /\ pc' = "done"
            /\ exit_status' = "success"
            /\ UNCHANGED <<exception, diag, md_state>>
  /\ UNCHANGED <<module_caps, out_dir_exists, req_imgs, imgs, group, i,
                 req_data, extra_data, fail, md, artifacts, all_json,
                 summary_json, json_writes, ci_output, calls>>

Next ==
  \/ main_load \/ main_check_out_dir \/ main_open_report
  \/ collect_encode \/ collect_encode_end \/ collect_decode \/ collect_return
  \/ main_report_group \/ main_report_row \/ main_report_group_end
  \/ main_write_summary \/ main_ci_output \/ main_exit

Spec == Init /\ [][Next]_vars
(* ---- the measurement of collect on arbitrary images ---- *)
\* pixel values of an original image, and values a decoder may return
PixelValues == {0, 1, PixelMax}
DecodedValues == {-1, 0, 1, PixelMax, PixelMax + 1}
Images(S) == {s \in SeqsUpTo(S, NPix) : Len(s) = NPix}

\* collect is in its second loop, on the only image of a run; the image X is
\* any image and its payload is valid.
InitRms ==
  /\ pc = "decode"
  /\ module_caps = Capabilities
  /\ out_dir_exists = TRUE
  /\ req_imgs = <<[scheme |-> FALSE, base |-> "a", mat |-> FALSE]>>
  /\ imgs = <<>>
  /\ group = "required"
  /\ i = 1
  /\ \E X \in Images(PixelValues) :
       req_data = <<[EmptyRow EXCEPT
                       !.name = Some(image_name(req_imgs[1])),
                       !.X = X,
                       !.enc = Some([vlc |-> [malformed |-> FALSE, bits |-> 40960],
                                     n_header_bits |-> 0])]>>
  /\ extra_data = <<>>
  /\ fail = FALSE
  /\ md_state = "open"
  /\ md = <<>>
  /\ artifacts = {}
  /\ all_json = NoJson
  /\ summary_json = None
  /\ json_writes = 0
  /\ ci_output = FALSE
  /\ calls = <<Call("load_mat_img", "required", 1), Call("encode", "required", 1)>>
  /\ exit_status = "running"
  /\ exception = ""
  /\ diag = ""

\* lines 150-163 with the decoder returning any Z
collect_decode_returns ==
  /\ pc = "decode"
  /\ i <= Len(group_data)
  /\ \E Z \in Images(DecodedValues) :
       SetData([group_data EXCEPT ![i] = measure_row(group_data[i], Z)])
  /\ calls' = Append(calls, Call("decode", group, i))
  /\ i' = loop_advance(i)
  /\ UNCHANGED <<pc, module_caps, out_dir_exists, req_imgs, imgs, group, fail,
                 md_state, md, artifacts, all_json, summary_json, json_writes,
                 ci_output, exit_status, exception, diag>>

NextRms == collect_decode_returns

SpecRms == InitRms /\ [][NextRms]_vars
(* ======================================================================= *)
(* Properties                                                              *)
(* ======================================================================= *)
Range(s) == {s[k] : k \in DOMAIN s}
Imgs(g) == IF g = "required" THEN req_imgs ELSE imgs
Data(g) == IF g = "required" THEN req_data ELSE extra_data
Positions(op, g, k) == {p \in DOMAIN calls : calls[p] = Call(op, g, k)}
Called(op, g, k) == Positions(op, g, k) # {}
\* the rows of summary.md of group g, in the order written: the k-th is the
\* row of Data(g)[k]
ReportRows(g) == SelectSeq(md, LAMBDA l : l.kind = "row" /\ l.group = g)
\* the run got past the loader and the output directory check
PastChecks == pc \notin {"load", "outdir"} /\ exception \notin {"RuntimeError"}
                /\ ~(exception = "SystemExit" /\ ~out_dir_exists)

\* C4: for every image whose payload is valid, total_bits is the declared
\* header_bits plus the payload bits, and the verdict written for the image is
\* "failed" exactly when total_bits > 40960 (40960 passes, 40961 fails),
\* whatever its rms.
C4_BudgetVerdict ==
  \A g \in Groups :
    /\ \A k \in DOMAIN Data(g) :
         LET row == Data(g)[k]
         IN (row.Z # None /\ ~row.enc[1].vlc.malformed) =>
              /\ row.vlc_bits = Some(row.enc[1].vlc.bits)
              /\ row.total_bits = Some(row.enc[1].n_header_bits + row.enc[1].vlc.bits)
    /\ \A k \in DOMAIN ReportRows(g) :
         LET row == Data(g)[k]
             line == ReportRows(g)[k]
         IN /\ line.name = row.name
            /\ ~row.enc[1].vlc.malformed =>
                 /\ line.fail <=> (row.total_bits[1] > 40960)
                 /\ all_json[g][row.name[1]].fail
                      <=> (Data(g)[CHOOSE j \in DOMAIN ReportRows(g) :
                                     /\ Data(g)[j].name = row.name
                                     /\ \A m \in DOMAIN ReportRows(g) :
                                          Data(g)[m].name = row.name => m <= j
                                  ].total_bits[1] > 40960)

\* C4 witness: a run reported one image of exactly 40960 bits as passing
\* although its rms is not zero, and one of 40961 bits as failing.
C4_Witness ==
  \E g \in Groups, h \in Groups :
    \E k \in DOMAIN ReportRows(g), m \in DOMAIN ReportRows(h) :
      /\ Data(g)[k].total_bits = Some(40960)
      /\ Data(g)[k].enc[1].n_header_bits = 1
      /\ Data(g)[k].rms # Some(0)
      /\ ~ReportRows(g)[k].fail
      /\ Data(h)[m].total_bits = Some(40961)
      /\ Data(h)[m].rms = Some(0)
      /\ ReportRows(h)[m].fail
\* C5: a run whose submission lacks header_bits, encode or decode, or whose
\* output directory does not exist, never loads an image, starts a worker,
\* calls encode or decode, nor opens or writes a report file; it ends with a
\* failure and a diagnostic naming the missing function or the directory.
C5_AbortsBeforeWork ==
  (module_caps # {"header_bits", "encode", "decode"} \/ ~out_dir_exists) =>
    /\ calls = <<>>
    /\ req_data = <<>> /\ extra_data = <<>>
    /\ md_state = "unopened" /\ md = <<>>
    /\ artifacts = {}
    /\ summary_json = None /\ json_writes = 0
    /\ pc \in {"load", "outdir", "done"}
    /\ pc = "done" =>
         /\ exit_status = "failure"
         /\ IF module_caps # {"header_bits", "encode", "decode"}
              THEN /\ exception = "RuntimeError"
                   /\ \/ "header_bits" \notin module_caps
                           /\ diag = "No header_bits function found"
                      \/ "encode" \notin module_caps
                           /\ diag = "No encode function found"
                      \/ "decode" \notin module_caps
                           /\ diag = "No decode function found"
              ELSE /\ exception = "SystemExit"
                   /\ diag = "Cannot find output directory"

\* C5 witness: a run with images to evaluate and an existing output directory
\* was aborted by the loader because only decode is missing.
C5_Witness ==
  /\ pc = "done"
  /\ module_caps = {"header_bits", "encode"}
  /\ out_dir_exists
  /\ req_imgs # <<>> /\ imgs # <<>>
  /\ exception = "RuntimeError"
  /\ diag = "No decode function found"

\* C8: every image record is encoded at most once and decoded at most once,
\* its decode is called only after its own encode returned an EncodeOutput,
\* and within one call of collect the encodes are made in list order and all
\* of them before the first decode.
C8_CallOrder ==
  \A p \in DOMAIN calls :
    LET c == calls[p]
        g == c.group
        earlier == 1..(p - 1)
    IN /\ c.idx \in 1..Len(Imgs(g))
       /\ c.op = "encode" =>
            \A q \in earlier :
              calls[q].group = g =>
                /\ calls[q].op # "decode"
                /\ calls[q].op = "encode" => calls[q].idx < c.idx
       /\ c.op = "decode" =>
            /\ Data(g)[c.idx].enc # None
            /\ \A q \in earlier : calls[q] # c
            /\ \A k \in 1..Len(Imgs(g)) :
                 \E q \in earlier : calls[q] = Call("encode", g, k)

\* C8 witness: one call of collect encoded two images and has decoded both.
C8_Witness ==
  \E g \in Groups :
    /\ Len(Imgs(g)) = 2
    /\ Called("decode", g, 1) /\ Called("decode", g, 2)
    /\ Data(g)[2].Z # None

\* the last row of group g with the name n among the rows 1..upto
LastRowNamed(g, n, upto) ==
  Data(g)[CHOOSE j \in 1..upto :
            /\ Data(g)[j].name = Some(n)
            /\ \A m \in 1..upto : Data(g)[m].name = Some(n) => m <= j]

C10_Written ==
  summary_json # None =>
    /\ json_writes = 1
    /\ summary_json[1] = all_json
    /\ md_state = "closed"
    /\ exception \notin {"Exception", "TypeError", "RuntimeError"}
    /\ all_json.failed = Some(fail)
    /\ \A g \in Groups :
         /\ Len(Data(g)) = Len(Imgs(g))
         /\ Len(ReportRows(g)) = Len(Data(g))
         /\ \A k \in DOMAIN Data(g) :
              /\ Called("encode", g, k) /\ Called("decode", g, k)
              /\ Data(g)[k].enc # None /\ Data(g)[k].Z # None
              /\ Data(g)[k].total_bits # None
              /\ Data(g)[k].name[1] \in artifacts
         /\ DOMAIN all_json[g] = {Data(g)[k].name[1] : k \in DOMAIN Data(g)}
         /\ \A n \in DOMAIN all_json[g] :
              LET row == LastRowNamed(g, n, Len(Data(g)))
              IN /\ all_json[g][n].fail = ReportRows(g)[
                        CHOOSE j \in DOMAIN Data(g) : Data(g)[j] = row].fail
                 /\ all_json[g][n].total_bits = row.total_bits
                 /\ all_json[g][n].rms = row.rms[1]

C10_GroupOrder ==
  \A p \in DOMAIN calls :
    calls[p].group = "extra" =>
      \A k \in 1..Len(req_imgs) :
        /\ \E q \in Positions("encode", "required", k) : q < p
        /\ \E q \in Positions("decode", "required", k) : q < p

C10_NothingAfter ==
  summary_json # None =>
    /\ summary_json' = summary_json
    /\ json_writes' = json_writes
    /\ md' = md /\ md_state' = md_state
    /\ artifacts' = artifacts
    /\ calls' = calls

\* C10: summary.json is written at most once, after every other file of the
\* report is complete (nothing of the report is written after it), and only
\* in runs in which every encode and decode of both groups returned and every
\* total_bits is not None; it then holds, per group, exactly one entry per
\* distinct image name, with the fail flag and total_bits of the (last) image
\* of that name, and the overall failed flag; and nothing of the extra group
\* is loaded or encoded before every required image is encoded and decoded.
C10_SummaryJson ==
  /\ [](json_writes <= 1 /\ C10_Written /\ C10_GroupOrder)
  /\ [][C10_NothingAfter]_vars

\* C10 witness: summary.json holds one entry for two required images of the
\* same name (cued-sf2://a.mat and a) and an entry for an extra image.
C10_Witness ==
  /\ summary_json # None
  /\ Len(req_data) = 2
  /\ req_imgs[1] # req_imgs[2]
  /\ Cardinality(DOMAIN summary_json[1].required) = 1
  /\ req_data[1].total_bits # req_data[2].total_bits
(* ---- what happened to image k of group g ---- *)
EncodeRaised(g, k) == Called("encode", g, k) /\ Data(g)[k].enc = None
DecodeRaised(g, k) == Called("decode", g, k) /\ Data(g)[k].Z = None
Measured(g, k) == k \in DOMAIN Data(g) /\ Data(g)[k].Z # None
Malformed(g, k) == Measured(g, k) /\ Data(g)[k].vlc_error
OverBudget(g, k) ==
  Measured(g, k) /\ Data(g)[k].total_bits # None
    /\ Data(g)[k].total_bits[1] > 40960
FailsEvaluation(g, k) ==
  k \in DOMAIN Data(g)
    /\ (EncodeRaised(g, k) \/ DecodeRaised(g, k) \/ Malformed(g, k) \/ OverBudget(g, k))
\* summary.json holds a record of image k of group g
HasRecord(g, k) ==
  /\ summary_json # None
  /\ k \in DOMAIN Data(g)
  /\ Data(g)[k].name # None
  /\ Data(g)[k].name[1] \in DOMAIN summary_json[1][g]
\* summary.md holds a row for image k of group g
HasReportRow(g, k) ==
  \E l \in Range(md) :
    l.kind = "row" /\ l.group = g /\ l.name = Some(image_name(Imgs(g)[k]))

\* The part of C1 that every finished aggregation satisfies: the failed flag
\* of summary.json is the OR of the verdicts of the required images.
FailedIsOrOfRequired ==
  summary_json # None =>
    summary_json[1].failed =
      Some(\E k \in DOMAIN req_data : Malformed("required", k) \/ OverBudget("required", k))

\* C1: the failed flag of the summary is the OR of the fail flags of the
\* required images only; in particular a run in which every required image
\* passes and an extra image has a malformed payload ends with failed = false
\* in the summary and a record of the extra image with fail = true.
C1_ExtraFailureReportedNotFatal ==
  (/\ pc = "done"
   /\ req_imgs # <<>>
   /\ \A k \in 1..Len(req_imgs) : Measured("required", k) /\ ~FailsEvaluation("required", k)
   /\ \A k \in 1..Len(imgs) : Measured("extra", k)
   /\ \E k \in 1..Len(imgs) : Malformed("extra", k))
  => /\ summary_json # None
     /\ summary_json[1].failed = Some(FALSE)
     /\ \A k \in 1..Len(imgs) :
          Malformed("extra", k) =>
            HasRecord("extra", k) /\ summary_json[1].extra[extra_data[k].name[1]].fail

\* C2: when the payload of an image is malformed, the image gets a record
\* with total_bits = null and fail = true, no exception leaves the
\* evaluation and aggregation, and every other image is reported too.
C2_MalformedPayloadCaptured ==
  (/\ pc = "done"
   /\ \A g \in Groups : \A k \in 1..Len(Imgs(g)) : Measured(g, k)
   /\ \E g \in Groups : \E k \in 1..Len(Imgs(g)) : Malformed(g, k))
  => /\ exception \notin {"TypeError", "Exception"}
     /\ \A g \in Groups : \A k \in 1..Len(Imgs(g)) :
          /\ HasRecord(g, k)
          /\ Malformed(g, k) =>
               LET e == summary_json[1][g][Data(g)[k].name[1]]
               IN e.total_bits = None /\ e.fail

\* C3: when encode or decode raises for an image, that image alone gets a
\* failed record and nothing more is attempted for it, while every other
\* image of the run is still encoded, decoded and reported.
C3_WorkerFailureIsolated ==
  (pc = "done" /\ PastChecks) =>
    \A g \in Groups : \A k \in 1..Len(Imgs(g)) :
      /\ Called("encode", g, k)
      /\ HasReportRow(g, k)
      /\ EncodeRaised(g, k) => ~Called("decode", g, k)
      /\ ~EncodeRaised(g, k) => Called("decode", g, k)

\* C6: a run whose submission loads exits with a failure exactly when the
\* output directory does not exist or a required image fails evaluation
\* (encode or decode raised, malformed payload, more than 40960 bits).
C6_ExitStatus ==
  (pc = "done" /\ module_caps = {"header_bits", "encode", "decode"}) =>
    (exit_status = "failure"
       <=> (~out_dir_exists
              \/ \E k \in DOMAIN req_data : FailsEvaluation("required", k)))

\* C7: a run that got past the loader and the output directory check ends
\* with a report holding the status of every image of both groups.
C7_ReportEnumeratesAll ==
  (pc = "done" /\ PastChecks) =>
    \A g \in Groups : \A k \in 1..Len(Imgs(g)) : HasReportRow(g, k)

\* C9: the rms of a row is the root mean square of X - Z_actual, Z_actual
\* being Z clamped to [0, 255]: N * rms^2 is the sum of the squared
\* differences (here times N on both sides), so rms = 0 exactly when
\* Z_actual = X.
C9_RmsIsRootMeanSquare ==
  \A g \in Groups : \A k \in DOMAIN Data(g) :
    LET row == Data(g)[k]
    IN row.Z # None =>
         /\ \A m \in 1..NPix :
              row.Z_actual[m] = IF row.Z[m] < 0 THEN 0
                                ELSE IF row.Z[m] > 255 THEN 255 ELSE row.Z[m]
         /\ row.rms[1] = NPix * SumSq(Diff(row.X, row.Z_actual))
         /\ (row.rms[1] = 0 <=> row.Z_actual = row.X)
====
